---------------------------- MODULE Spec2Model ----------------------------
(***************************************************************************)
(* A model of Backend/vector_cache.py (VectorCache, get_vector_cache) and  *)
(* of Backend/azure_openai_service.py (generate_rag_answer,                *)
(* _build_context, _estimate_confidence).                                  *)
(*                                                                         *)
(* Optional values (Python's None or a value) are sequences of length 0 or *)
(* 1.  A Python dict is a sequence of [id, entry] pairs in insertion       *)
(* order.  The entries of the cache are objects: heap holds the dict each  *)
(* dict literal of set has created, and the mapping, the results of get    *)
(* and the callers hold references to them (positions in heap).  Times are *)
(* natural numbers; datetime.now() returns a later time at every call.     *)
(***************************************************************************)
EXTENDS Integers, Sequences, FiniteSets, TLC

VARIABLES
    \* ---- VectorCache object (vector_cache.py:25-29)
    cache,          \* self._cache: sequence of [id, entry], insertion order,
                    \* entry a reference into heap
    heap,           \* the entry dicts created so far, by reference
    initialized,    \* self._initialized
    last_refresh,   \* self._last_refresh: <<>> (None) or <<time>>
    lock,           \* self._lock (RLock): [owner, count]
    \* ---- environment and callers of the cache
    clock,          \* the last value datetime.now() returned
    calls,          \* number of calls started so far
    pc,             \* pc[t]: position of thread t inside its call
    op,             \* op[t]: the call thread t is in (or has just finished)
    local,          \* local[t]: local variables of the call
    ret,            \* ret[t]: outcome of the last call of t
    written,        \* history: per id, the arguments of the last set that
                    \* completed with no remove or clear of the id after it
    \* ---- module globals of vector_cache.py (lines 146-147) and the callers
    \*      of get_vector_cache
    instance,       \* _vector_cache_instance: <<>> (None) or <<object>>
    cache_lock,     \* _cache_lock (Lock): 0 when free, else the holder
    constructed,    \* number of VectorCache objects constructed so far
    gcalls,         \* number of get_vector_cache calls started so far
    gpc,            \* gpc[t]: position of thread t inside get_vector_cache
    gobj,           \* gobj[t]: the object thread t has constructed, if any
    got,            \* got[t]: what the last call of t returned, <<0>> while
                    \* it has not returned (objects are numbered from 1)
    \* ---- AzureOpenAIService (azure_openai_service.py)
    rag,            \* one call of generate_rag_answer: position, arguments,
                    \* locals, the reply of the completion, the outcome
    llm_calls,      \* completions requested from the language model so far
    ctx,            \* one call of _build_context: arguments and result
    conf            \* one call of _estimate_confidence: argument and result

cacheVars == <<cache, heap, initialized, last_refresh, lock, clock, calls, pc, op, local, ret, written>>
singletonVars == <<instance, cache_lock, constructed, gcalls, gpc, gobj, got>>
serviceVars == <<rag, llm_calls, ctx, conf>>
vars == <<cacheVars, singletonVars, serviceVars>>

-----------------------------------------------------------------------------
\* Bounds of the model

MaxCalls == 3
MaxRows == 1
MaxChunks == 1

Threads == {1, 2}
DocIds == {"d1", "d2"}

\* Each caller passes a metadata record of its own
Metadata(t) == [source |-> t]

\* The chunk list of n chunks
ChunkList(n) == [i \in 1..n |-> [chunk_id |-> i]]
ChunkLists == {ChunkList(n) : n \in 0..MaxChunks}

\* numpy arrays by their shape: 2-D arrays of rows x D, with no row or with
\* MaxRows rows, and arrays that are not 2-D (ndim 1 and 3)
Arrays2D == {[ndim |-> 2, rows |-> r] : r \in {0, MaxRows}}
ArraysNot2D == {[ndim |-> 1, rows |-> 1], [ndim |-> 3, rows |-> 1]}

-----------------------------------------------------------------------------
\* Python dict operations on a sequence of [id, entry] pairs

DictKeys(d) == [i \in 1..Len(d) |-> d[i].id]

DictHas(d, k) == \E i \in 1..Len(d) : d[i].id = k

\* dict.get(k): <<>> for None, <<v>> for the value v stored under k
DictGet(d, k) ==
    IF DictHas(d, k)
    THEN <<d[CHOOSE i \in 1..Len(d) : d[i].id = k].entry>>
    ELSE <<>>

\* Variants of DictSet: one keeps the entry already stored under k, one
\* rebinds the mapping to a new dict holding k alone
DictSetKeepsOld(d, k, e) ==
    IF DictHas(d, k) THEN d ELSE Append(d, [id |-> k, entry |-> e])

DictSetRebinds(d, k, e) == <<[id |-> k, entry |-> e]>>

\* d[k] = e: replaces in place or appends
DictSet(d, k, e) ==
    IF DictHas(d, k)
    THEN [i \in 1..Len(d) |-> IF d[i].id = k THEN [id |-> k, entry |-> e] ELSE d[i]]
    ELSE Append(d, [id |-> k, entry |-> e])

\* Variant of DictDel: the oldest key is deleted, whatever k is
DictDelOldest(d, k) == Tail(d)

\* Variant of DictDel: the key stays in the dict
DictDelKeeps(d, k) == d

\* del d[k]
DictDel(d, k) == SelectSeq(d, LAMBDA p : p.id # k)

\* sum(len(data["chunks"]) for data in d.values())
RECURSIVE SumChunks(_)
SumChunks(d) == IF Len(d) = 0 THEN 0 ELSE Len(heap[Head(d).entry].chunks) + SumChunks(Tail(d))

\* sum(data["embeddings"].shape[0] for data in d.values())
RECURSIVE SumVectors(_)
SumVectors(d) == IF Len(d) = 0 THEN 0 ELSE heap[Head(d).entry].embeddings.rows + SumVectors(Tail(d))

-----------------------------------------------------------------------------
\* Calls

NoArg == [ndim |-> 0, rows |-> 0]

Call(n, k, e, c, m) == [name |-> n, id |-> k, embeddings |-> e, chunks |-> c, metadata |-> m]

KeyCall(n, k) == Call(n, k, NoArg, <<>>, <<>>)
PlainCall(n) == Call(n, "", NoArg, <<>>, <<>>)

SetCalls(t) ==
    {Call("set", k, e, c, Metadata(t)) : k \in DocIds, e \in Arrays2D, c \in ChunkLists}
        \cup {Call("set", k, e, ChunkList(1), Metadata(t)) : k \in DocIds, e \in ArraysNot2D}

AllCalls(t) ==
    SetCalls(t)
        \cup {KeyCall(n, k) : n \in {"is_cached", "get", "remove"}, k \in DocIds}
        \cup {PlainCall(n) : n \in {"get_all_document_ids", "get_all_metadata", "clear",
                                    "get_stats", "mark_initialized", "is_initialized"}}

NoCall == PlainCall("none")
NoLocal == [total_chunks |-> 0, total_vectors |-> 0, index |-> <<>>]

Returned(v) == [kind |-> "value", val |-> v]
Raised(x) == [kind |-> "raised", val |-> x]
NoRet == [kind |-> "pending", val |-> <<>>]

-----------------------------------------------------------------------------
\* State after construction: VectorCache.__init__, no caller inside a call

InitCache ==
    /\ cache = <<>>
    /\ heap = <<>>
    /\ initialized = FALSE
    /\ last_refresh = <<>>
    /\ lock = [owner |-> 0, count |-> 0]

InitCallers ==
    /\ clock = 0
    /\ calls = 0
    /\ pc = [t \in Threads |-> "idle"]
    /\ op = [t \in Threads |-> NoCall]
    /\ local = [t \in Threads |-> NoLocal]
    /\ ret = [t \in Threads |-> NoRet]
    /\ written = [k \in DocIds |-> <<>>]

\* Variant of CanAcquire: a lock that excludes nobody
CanAcquireAlways(t) == TRUE

\* threading.RLock: free, or held by its owner who may take it again
CanAcquire(t) == lock.count = 0 \/ lock.owner = t

Acquired(t) == [owner |-> t, count |-> lock.count + 1]

\* Variant of Released: leaving the with block does not give the lock back
ReleasedKeeps(t) == lock

Released(t) == IF lock.count = 1 THEN [owner |-> 0, count |-> 0]
               ELSE [owner |-> lock.owner, count |-> lock.count - 1]

\* The first line of the body of each method, after "with self._lock:"
Body(n) ==
    CASE n = "set" -> "set_build"
      [] n = "clear" -> "clear_map"
      [] n = "get_stats" -> "stats_chunks"
      [] OTHER -> n

\* A caller starts a call of a public method and reaches "with self._lock:".
\* The arguments are its own until the body runs, so they are drawn when the
\* lock is taken.
Start(t) ==
    /\ pc[t] \in {"idle", "done"}
    /\ calls < MaxCalls
    /\ calls' = calls + 1
    /\ pc' = [pc EXCEPT ![t] = "acquire"]
    /\ op' = [op EXCEPT ![t] = NoCall]
    /\ ret' = [ret EXCEPT ![t] = NoRet]
    /\ UNCHANGED <<cache, heap, initialized, last_refresh, lock, clock, local, written, singletonVars, serviceVars>>

\* "with self._lock:" entered by a call c
Acquire(t, c) ==
    /\ pc[t] = "acquire"
    /\ CanAcquire(t)
    /\ lock' = Acquired(t)
    /\ op' = [op EXCEPT ![t] = c]
    /\ pc' = [pc EXCEPT ![t] = Body(c.name)]
    /\ UNCHANGED <<cache, heap, initialized, last_refresh, clock, calls, local, ret, written, singletonVars, serviceVars>>

\* The with block is left (by return or by an exception) with outcome r
Leave(t, r) ==
    /\ lock' = Released(t)
    /\ pc' = [pc EXCEPT ![t] = "done"]
    /\ ret' = [ret EXCEPT ![t] = r]
    /\ local' = [local EXCEPT ![t] = NoLocal]

-----------------------------------------------------------------------------
\* VectorCache methods.  Each body runs between Acquire and Leave.

\* is_cached: document_id in self._cache
IsCached(t) ==
    /\ pc[t] = "is_cached"
    /\ Leave(t, Returned(DictHas(cache, op[t].id)))
    /\ UNCHANGED <<cache, heap, initialized, last_refresh, clock, calls, op, written, singletonVars, serviceVars>>

\* get: self._cache.get(document_id)
Get(t) ==
    /\ pc[t] = "get"
    /\ Leave(t, Returned(DictGet(cache, op[t].id)))
    /\ UNCHANGED <<cache, heap, initialized, last_refresh, clock, calls, op, written, singletonVars, serviceVars>>

\* set, lines 65-71: embeddings.shape[1] raises IndexError on a 1-D array;
\* index.add unpacks "n, d = x.shape" and raises ValueError on a 3-D array;
\* otherwise the index holds one vector per row.  Nothing compares the
\* number of rows with len(chunks).
BuildIndex(e) ==
    IF e.ndim < 2 THEN Raised("IndexError")
    ELSE IF e.ndim > 2 THEN Raised("ValueError")
    ELSE Returned([ntotal |-> e.rows])

\* The dict literal of lines 73-79
NewEntry(c, index, now) ==
    [embeddings |-> c.embeddings, chunks |-> c.chunks, metadata |-> c.metadata,
     faiss_index |-> index, cached_at |-> now]

\* Variant of SetBuild: the entry is stored before the index is built, so
\* that a failure leaves it in the mapping
SetBuildStoresFirst(t) ==
    /\ pc[t] = "set_build"
    /\ LET b == BuildIndex(op[t].embeddings) IN
         IF b.kind = "raised"
         THEN /\ heap' = Append(heap, NewEntry(op[t], [ntotal |-> 0], clock))
              /\ cache' = DictSet(cache, op[t].id, Len(heap) + 1)
              /\ Leave(t, b)
         ELSE /\ local' = [local EXCEPT ![t].index = <<b.val>>]
              /\ pc' = [pc EXCEPT ![t] = "set_install"]
              /\ UNCHANGED <<cache, heap, lock, ret>>
    /\ UNCHANGED <<initialized, last_refresh, clock, calls, op, written, singletonVars, serviceVars>>

SetBuild(t) ==
    /\ pc[t] = "set_build"
    /\ LET b == BuildIndex(op[t].embeddings) IN
         IF b.kind = "raised"
         THEN Leave(t, b)
         ELSE /\ local' = [local EXCEPT ![t].index = <<b.val>>]
              /\ pc' = [pc EXCEPT ![t] = "set_install"]
              /\ UNCHANGED <<lock, ret>>
    /\ UNCHANGED <<cache, heap, initialized, last_refresh, clock, calls, op, written, singletonVars, serviceVars>>

\* Variant of SetInstall: an insert also marks the cache initialized
SetInstallMarks(t) ==
    /\ pc[t] = "set_install"
    /\ \E now \in {clock + 1} :
         /\ clock' = now
         /\ heap' = Append(heap, NewEntry(op[t], local[t].index[1], now))
         /\ cache' = DictSet(cache, op[t].id, Len(heap) + 1)
         /\ last_refresh' = <<now>>
    /\ initialized' = TRUE
    /\ written' = [written EXCEPT ![op[t].id] =
                        <<[chunks |-> op[t].chunks, metadata |-> op[t].metadata]>>]
    /\ Leave(t, Returned(<<>>))
    /\ UNCHANGED <<calls, op, singletonVars, serviceVars>>

\* Variant of SetInstall: the dict already stored under the key is updated
\* in place
SetInstallInPlace(t) ==
    /\ pc[t] = "set_install"
    /\ \E now \in {clock + 1} :
         /\ clock' = now
         /\ IF DictHas(cache, op[t].id)
            THEN /\ heap' = [heap EXCEPT ![DictGet(cache, op[t].id)[1]] =
                                NewEntry(op[t], local[t].index[1], now)]
                 /\ cache' = cache
            ELSE /\ heap' = Append(heap, NewEntry(op[t], local[t].index[1], now))
                 /\ cache' = DictSet(cache, op[t].id, Len(heap) + 1)
    /\ written' = [written EXCEPT ![op[t].id] =
                        <<[chunks |-> op[t].chunks, metadata |-> op[t].metadata]>>]
    /\ Leave(t, Returned(<<>>))
    /\ UNCHANGED <<initialized, last_refresh, calls, op, singletonVars, serviceVars>>

\* set, lines 73-81: self._cache[document_id] = {...}, a new dict object
SetInstall(t) ==
    /\ pc[t] = "set_install"
    /\ \E now \in {clock + 1} :
         /\ clock' = now
         /\ heap' = Append(heap, NewEntry(op[t], local[t].index[1], now))
         /\ cache' = DictSet(cache, op[t].id, Len(heap) + 1)
    /\ written' = [written EXCEPT ![op[t].id] =
                        <<[chunks |-> op[t].chunks, metadata |-> op[t].metadata]>>]
    /\ Leave(t, Returned(<<>>))
    /\ UNCHANGED <<initialized, last_refresh, calls, op, singletonVars, serviceVars>>

\* get_all_document_ids: list(self._cache.keys())
GetAllDocumentIds(t) ==
    /\ pc[t] = "get_all_document_ids"
    /\ Leave(t, Returned(DictKeys(cache)))
    /\ UNCHANGED <<cache, heap, initialized, last_refresh, clock, calls, op, written, singletonVars, serviceVars>>

\* datetime.isoformat()
IsoFormat(time) == <<"iso", time>>

\* lines 93-95: a copy of the metadata with document_id and cached_at added
MetaOf(p) ==
    [k \in DOMAIN heap[p.entry].metadata \cup {"document_id", "cached_at"} |->
        IF k = "document_id" THEN p.id
        ELSE IF k = "cached_at" THEN IsoFormat(heap[p.entry].cached_at)
        ELSE heap[p.entry].metadata[k]]

\* Variant of get_all_metadata without the copy of line 93: the two keys are
\* added to the stored metadata
GetAllMetadataInPlace(t) ==
    /\ pc[t] = "get_all_metadata"
    /\ heap' = [r \in 1..Len(heap) |->
                  IF \E i \in 1..Len(cache) : cache[i].entry = r
                  THEN [heap[r] EXCEPT !.metadata =
                           MetaOf(cache[CHOOSE i \in 1..Len(cache) : cache[i].entry = r])]
                  ELSE heap[r]]
    /\ Leave(t, Returned([i \in 1..Len(cache) |-> MetaOf(cache[i])]))
    /\ UNCHANGED <<cache, initialized, last_refresh, clock, calls, op, written, singletonVars, serviceVars>>

GetAllMetadata(t) ==
    /\ pc[t] = "get_all_metadata"
    /\ Leave(t, Returned([i \in 1..Len(cache) |-> MetaOf(cache[i])]))
    /\ UNCHANGED <<cache, heap, initialized, last_refresh, clock, calls, op, written, singletonVars, serviceVars>>

\* remove
Remove(t) ==
    /\ pc[t] = "remove"
    /\ IF DictHas(cache, op[t].id)
       THEN /\ cache' = DictDel(cache, op[t].id)
            /\ heap' = heap
            /\ written' = [written EXCEPT ![op[t].id] = <<>>]
            /\ Leave(t, Returned(TRUE))
       ELSE /\ UNCHANGED <<cache, heap, written>>
            /\ Leave(t, Returned(FALSE))
    /\ UNCHANGED <<initialized, last_refresh, clock, calls, op, singletonVars, serviceVars>>

\* clear, lines 111-112: self._cache.clear()
ClearMap(t) ==
    /\ pc[t] = "clear_map"
    /\ cache' = <<>>
    /\ written' = [k \in DocIds |-> <<>>]
    /\ pc' = [pc EXCEPT ![t] = "clear_flags"]
    /\ UNCHANGED <<heap, initialized, last_refresh, lock, clock, calls, op, local, ret, singletonVars, serviceVars>>

\* Variant of ClearFlags: the initialized flag is not reset
ClearFlagsKeepsInitialized(t) ==
    /\ pc[t] = "clear_flags"
    /\ last_refresh' = <<>>
    /\ Leave(t, Returned(<<>>))
    /\ UNCHANGED <<cache, heap, initialized, clock, calls, op, written, singletonVars, serviceVars>>

\* clear, lines 113-115
ClearFlags(t) ==
    /\ pc[t] = "clear_flags"
    /\ initialized' = FALSE
    /\ last_refresh' = <<>>
    /\ Leave(t, Returned(<<>>))
    /\ UNCHANGED <<cache, heap, clock, calls, op, written, singletonVars, serviceVars>>

\* get_stats, line 120
StatsChunks(t) ==
    /\ pc[t] = "stats_chunks"
    /\ local' = [local EXCEPT ![t].total_chunks = SumChunks(cache)]
    /\ pc' = [pc EXCEPT ![t] = "stats_vectors"]
    /\ UNCHANGED <<cache, heap, initialized, last_refresh, lock, clock, calls, op, ret, written, singletonVars, serviceVars>>

\* get_stats, line 121
StatsVectors(t) ==
    /\ pc[t] = "stats_vectors"
    /\ local' = [local EXCEPT ![t].total_vectors = SumVectors(cache)]
    /\ pc' = [pc EXCEPT ![t] = "stats_return"]
    /\ UNCHANGED <<cache, heap, initialized, last_refresh, lock, clock, calls, op, ret, written, singletonVars, serviceVars>>

\* The dict get_stats returns, lines 123-130
Stats(d, init, refresh, chunks, vectors) ==
    [total_documents |-> Len(d),
     total_chunks |-> chunks,
     total_vectors |-> vectors,
     initialized |-> init,
     last_refresh |-> IF refresh # <<>> THEN <<IsoFormat(refresh[1])>> ELSE <<>>,
     document_ids |-> DictKeys(d)]

StatsReturn(t) ==
    /\ pc[t] = "stats_return"
    /\ Leave(t, Returned(Stats(cache, initialized, last_refresh,
                               local[t].total_chunks, local[t].total_vectors)))
    /\ UNCHANGED <<cache, heap, initialized, last_refresh, clock, calls, op, written, singletonVars, serviceVars>>

\* mark_initialized
MarkInitialized(t) ==
    /\ pc[t] = "mark_initialized"
    /\ \E now \in {clock + 1} :
         /\ clock' = now
         /\ last_refresh' = <<now>>
    /\ initialized' = TRUE
    /\ Leave(t, Returned(<<>>))
    /\ UNCHANGED <<cache, heap, calls, op, written, singletonVars, serviceVars>>

\* is_initialized
IsInitialized(t) ==
    /\ pc[t] = "is_initialized"
    /\ Leave(t, Returned(initialized))
    /\ UNCHANGED <<cache, heap, initialized, last_refresh, clock, calls, op, written, singletonVars, serviceVars>>

-----------------------------------------------------------------------------
\* get_vector_cache (lines 150-159): double-checked locking on the module
\* globals.  The unlocked test, the locked test, the construction, the store
\* and the final read are separate steps of a thread.

MaxGets == 4
GetThreads == {1, 2, 3}

InitSingleton ==
    /\ instance = <<>>
    /\ cache_lock = 0
    /\ constructed = 0
    /\ gcalls = 0
    /\ gpc = [t \in GetThreads |-> "idle"]
    /\ gobj = [t \in GetThreads |-> <<>>]
    /\ got = [t \in GetThreads |-> <<0>>]

GStart(t) ==
    /\ gpc[t] \in {"idle", "done"}
    /\ gcalls < MaxGets
    /\ gcalls' = gcalls + 1
    /\ gpc' = [gpc EXCEPT ![t] = "first_check"]
    /\ got' = [got EXCEPT ![t] = <<0>>]
    /\ UNCHANGED <<instance, cache_lock, constructed, gobj, cacheVars, serviceVars>>

\* line 154: if _vector_cache_instance is None (no lock held)
FirstCheck == instance = <<>>

GFirstCheck(t) ==
    /\ gpc[t] = "first_check"
    /\ gpc' = [gpc EXCEPT ![t] = IF FirstCheck THEN "lock" ELSE "return"]
    /\ UNCHANGED <<instance, cache_lock, constructed, gcalls, gobj, got, cacheVars, serviceVars>>

\* line 155: with _cache_lock (threading.Lock, not reentrant)
GLock(t) ==
    /\ gpc[t] = "lock"
    /\ cache_lock = 0
    /\ cache_lock' = t
    /\ gpc' = [gpc EXCEPT ![t] = "second_check"]
    /\ UNCHANGED <<instance, constructed, gcalls, gobj, got, cacheVars, serviceVars>>

\* Variant of SecondCheck: the test under the lock is left out
SecondCheckSkipped == TRUE

\* line 156: if _vector_cache_instance is None (lock held)
SecondCheck == instance = <<>>

GSecondCheck(t) ==
    /\ gpc[t] = "second_check"
    /\ gpc' = [gpc EXCEPT ![t] = IF SecondCheck THEN "construct" ELSE "unlock"]
    /\ UNCHANGED <<instance, cache_lock, constructed, gcalls, gobj, got, cacheVars, serviceVars>>

\* line 157, right-hand side: VectorCache()
GConstruct(t) ==
    /\ gpc[t] = "construct"
    /\ constructed' = constructed + 1
    /\ gobj' = [gobj EXCEPT ![t] = <<constructed + 1>>]
    /\ gpc' = [gpc EXCEPT ![t] = "store"]
    /\ UNCHANGED <<instance, cache_lock, gcalls, got, cacheVars, serviceVars>>

\* line 157: the global is bound to the new object
GStore(t) ==
    /\ gpc[t] = "store"
    /\ instance' = gobj[t]
    /\ gobj' = [gobj EXCEPT ![t] = <<>>]
    /\ gpc' = [gpc EXCEPT ![t] = "unlock"]
    /\ UNCHANGED <<cache_lock, constructed, gcalls, got, cacheVars, serviceVars>>

\* the with block of line 155 is left
GUnlock(t) ==
    /\ gpc[t] = "unlock"
    /\ cache_lock' = 0
    /\ gpc' = [gpc EXCEPT ![t] = "return"]
    /\ UNCHANGED <<instance, constructed, gcalls, gobj, got, cacheVars, serviceVars>>

\* line 159: return _vector_cache_instance
GReturn(t) ==
    /\ gpc[t] = "return"
    /\ got' = [got EXCEPT ![t] = instance]
    /\ gpc' = [gpc EXCEPT ![t] = "done"]
    /\ UNCHANGED <<instance, cache_lock, constructed, gcalls, gobj, cacheVars, serviceVars>>

NextSingleton ==
    \E t \in GetThreads :
        \/ GStart(t)
        \/ GFirstCheck(t)
        \/ GLock(t)
        \/ GSecondCheck(t)
        \/ GConstruct(t)
        \/ GStore(t)
        \/ GUnlock(t)
        \/ GReturn(t)

-----------------------------------------------------------------------------
\* azure_openai_service.py.  A str is a sequence of characters.  A float is
\* a binary floating-point number, written as a fraction [num, den] in lowest
\* terms whose den is a power of two and whose num has at most Precision
\* bits: Python's float with the significand scaled down from 53 bits.  The
\* literal of a similarity score s is s / ScoreDen and the literal of a
\* weight w is w / 10; a literal and every +, * and / give the nearest
\* float, ties to even.

ScoreDen == 4
Precision == 8
MaxRanked == 6
MaxTextLen == 2
MaxCtxChunks == 3
MaxMaxLength == 45
MaxRagChunks == 4

Min(a, b) == IF a <= b THEN a ELSE b

Zero == [num |-> 0, den |-> 1]
One == [num |-> 1, den |-> 1]

\* a <= b for fractions with positive denominators
RatLeq(a, b) == a.num * b.den <= b.num * a.den

\* min(a, b) as Python computes it: b when b < a, else a
RatMin(a, b) == IF RatLeq(a, b) THEN a ELSE b

RECURSIVE Pow2(_)
Pow2(n) == IF n = 0 THEN 1 ELSE 2 * Pow2(n - 1)

\* n / d in lowest terms, for d a power of two
RECURSIVE Reduce(_, _)
Reduce(n, d) ==
    IF n = 0 THEN Zero
    ELSE IF d > 1 /\ n % 2 = 0 THEN Reduce(n \div 2, d \div 2)
    ELSE [num |-> n, den |-> d]

Twice(x) == Reduce(2 * x.num, x.den)
Half(x) == Reduce(x.num, 2 * x.den)
Neg(x) == [num |-> 0 - x.num, den |-> x.den]

\* The integer nearest to a / d, the even one of two equally near
NearestEven(a, d) ==
    LET q == a \div d
        r == a % d
    IN IF 2 * r > d \/ (2 * r = d /\ q % 2 = 1) THEN q + 1 ELSE q

\* The float nearest to a / d, for a > 0 and d > 0: the quotient is brought
\* between 2^(Precision-1) and 2^Precision and rounded to an integer there
RECURSIVE RoundPos(_, _)
RoundPos(a, d) ==
    IF a \div d >= Pow2(Precision) THEN Twice(RoundPos(a, 2 * d))
    ELSE IF a % d = 0 THEN [num |-> a \div d, den |-> 1]
    ELSE IF a \div d < Pow2(Precision - 1) THEN Half(RoundPos(2 * a, d))
    ELSE [num |-> NearestEven(a, d), den |-> 1]

\* The float nearest to n / d, for d > 0
Round(n, d) ==
    IF n = 0 THEN Zero
    ELSE IF n > 0 THEN RoundPos(n, d)
    ELSE Neg(RoundPos(0 - n, d))

\* x + y, x * y and x / y (for y > 0) on floats
FAdd(x, y) == Round(x.num * y.den + y.num * x.den, x.den * y.den)
FMul(x, y) == Round(x.num * y.num, x.den * y.den)
FDiv(x, y) ==
    LET g == Min(x.den, y.den)
    IN Round(x.num * (y.den \div g), (x.den \div g) * y.num)

\* n copies of the character c
Rep(c, n) == [i \in 1..n |-> c]

DigitChars == <<"0", "1", "2", "3", "4", "5", "6", "7", "8", "9">>

\* str(n) for n >= 0
RECURSIVE Str(_)
Str(n) == IF n < 10 THEN <<DigitChars[n + 1]>>
          ELSE Str(n \div 10) \o <<DigitChars[(n % 10) + 1]>>

\* s[:n]
Prefix(s, n) == SubSeq(s, 1, Min(n, Len(s)))

\* sep.join(parts)
RECURSIVE Join(_, _)
Join(parts, sep) ==
    IF Len(parts) = 0 THEN <<>>
    ELSE IF Len(parts) = 1 THEN parts[1]
    ELSE parts[1] \o sep \o Join(Tail(parts), sep)

Whitespace == {" ", "\n"}

\* str.strip()
RECURSIVE Strip(_)
Strip(s) ==
    IF Len(s) = 0 THEN s
    ELSE IF s[1] \in Whitespace THEN Strip(Tail(s))
    ELSE IF s[Len(s)] \in Whitespace THEN Strip(SubSeq(s, 1, Len(s) - 1))
    ELSE s

\* chunk[key] raises KeyError when the dict has no such key
HasKey(chunk, key) == key \in DOMAIN chunk

\* ---- _build_context (lines 237-260)

DefaultMaxLength == 10000

\* line 252: f"[Context {i + 1}]\n{chunk['text']}\n", for the 1-based position i
ChunkText(i, chunk) ==
    <<"[", "C", "o", "n", "t", "e", "x", "t", " ">> \o Str(i) \o <<"]", "\n">>
        \o chunk.text \o <<"\n">>

\* Variant of ContextParts: a chunk that does not fit is skipped and the
\* loop goes on (continue in place of break)
RECURSIVE ContextPartsSkips(_, _, _, _, _)
ContextPartsSkips(chunks, i, parts, total_length, max_length) ==
    IF i > Len(chunks) THEN Returned(parts)
    ELSE IF ~HasKey(chunks[i], "text") THEN Raised("KeyError")
    ELSE LET chunk_text == ChunkText(i, chunks[i]) IN
         IF total_length + Len(chunk_text) > max_length
         THEN ContextPartsSkips(chunks, i + 1, parts, total_length, max_length)
         ELSE ContextPartsSkips(chunks, i + 1, Append(parts, chunk_text),
                                total_length + Len(chunk_text), max_length)

\* lines 251-258: the loop, from position i on, with the parts collected so
\* far and their total length; stops at the first chunk that does not fit
RECURSIVE ContextParts(_, _, _, _, _)
ContextParts(chunks, i, parts, total_length, max_length) ==
    IF i > Len(chunks) THEN Returned(parts)
    ELSE IF ~HasKey(chunks[i], "text") THEN Raised("KeyError")
    ELSE LET chunk_text == ChunkText(i, chunks[i]) IN
         IF total_length + Len(chunk_text) > max_length THEN Returned(parts)
         ELSE ContextParts(chunks, i + 1, Append(parts, chunk_text),
                           total_length + Len(chunk_text), max_length)

\* _build_context: the outcome, a str or KeyError
BuildContext(chunks, max_length) ==
    LET parts == ContextParts(chunks, 1, <<>>, 0, max_length) IN
    IF parts.kind = "raised" THEN parts ELSE Returned(Join(parts.val, <<"\n">>))

\* ---- _estimate_confidence (lines 328-352)

TopChunks == 5

\* line 342, in tenths
Weights == <<10, 8, 6, 4, 2>>

\* line 347: weights[i] if i < len(weights) else 0.1, for the 1-based position i
WeightAt(i) == Round(IF i <= Len(Weights) THEN Weights[i] ELSE 1, 10)

\* chunk["similarity_score"], a float
Score(chunk) == Round(chunk.similarity_score, ScoreDen)

\* lines 346-349: total_score and total_weight after the first n chunks of
\* chunks[:5], each starting from 0.0
RECURSIVE TotalScore(_, _)
TotalScore(top, n) ==
    IF n = 0 THEN Zero
    ELSE FAdd(TotalScore(top, n - 1), FMul(Score(top[n]), WeightAt(n)))

\* Variant of TotalWeight: the sum of all five weights, however many chunks
\* there are
TotalWeightAll(top, n) == Round(30, 10)

RECURSIVE TotalWeight(_, _)
TotalWeight(top, n) ==
    IF n = 0 THEN Zero ELSE FAdd(TotalWeight(top, n - 1), WeightAt(n))

\* _estimate_confidence: the outcome, a float or KeyError
EstimateConfidence(chunks) ==
    IF Len(chunks) = 0 THEN Returned(Zero)
    ELSE LET top == Prefix(chunks, TopChunks) IN
         IF \E i \in 1..Len(top) : ~HasKey(top[i], "similarity_score")
         THEN Raised("KeyError")
         ELSE LET total_score == TotalScore(top, Len(top))
                  total_weight == TotalWeight(top, Len(top))
                  confidence == IF total_weight.num > 0
                                THEN FDiv(total_score, total_weight)
                                ELSE Zero
              IN Returned(RatMin(confidence, One))

\* ---- generate_rag_answer (lines 89-189) and _generate_completion (191-235)

SourceChunks == 3
PreviewLen == 200

Ellipsis == <<".", ".", ".">>

\* lines 155-162: the sources of the first three chunks, or KeyError
Sources(chunks) ==
    LET top == Prefix(chunks, SourceChunks) IN
    IF \E i \in 1..Len(top) :
          ~HasKey(top[i], "chunk_id") \/ ~HasKey(top[i], "similarity_score")
              \/ ~HasKey(top[i], "text")
    THEN Raised("KeyError")
    ELSE Returned([i \in 1..Len(top) |->
            [chunk_id |-> top[i].chunk_id,
             similarity_score |-> top[i].similarity_score,
             preview |-> IF Len(top[i].text) > PreviewLen
                         THEN Prefix(top[i].text, PreviewLen) \o Ellipsis
                         ELSE top[i].text]])

\* What the chat completion does: it raises, or it answers with no choice,
\* or with one choice whose content is None, "", " " or " ok\n"
Replies ==
    {[kind |-> "raise", content |-> <<>>], [kind |-> "no_choice", content |-> <<>>]}
        \cup {[kind |-> "choice", content |-> c] :
                c \in {<<>>, << <<>> >>, << <<" ">> >>, << <<" ", "o", "k", "\n">> >>}}

NoReply == [kind |-> "none", content |-> <<>>]

\* _generate_completion, lines 229-235: the content of the first choice, None
\* when there is no choice, and the exception of the call raised again
GenerateCompletion(reply) ==
    IF reply.kind = "raise" THEN Raised("APIError")
    ELSE IF reply.kind = "choice" THEN Returned(reply.content)
    ELSE Returned(<<>>)

\* "if response:" on an Optional[str]
Truthy(response) == response # <<>> /\ Len(response[1]) > 0

\* Variant of NoChunks: the test for an empty list is left out
NoChunksNever(chunks) == FALSE

\* line 121: not relevant_chunks
NoChunks(chunks) == Len(chunks) = 0

\* Variant of Handles: only KeyError is caught
HandlesKeyErrorOnly(x) == x = "KeyError"

\* line 182: except Exception
Handles(x) == x \in {"KeyError", "APIError"}

\* The dicts generate_rag_answer returns
Result(answer, confidence, sources, n) ==
    [answer |-> answer, confidence |-> confidence, sources |-> sources,
     chunks_retrieved |-> n]

Unavailable == Result(<<"unavailable">>, Zero, <<>>, 0)
NoContext == Result(<<"no_context">>, Zero, <<>>, 0)
EmptyResponse(chunks) == Result(<<"empty_response">>, Zero, <<>>, Len(chunks))
ErrorResult(x, chunks) == Result(<<"error", x>>, Zero, <<>>, Len(chunks))
Success(text, confidence, sources, chunks) ==
    [answer |-> <<"text", text>>, confidence |-> confidence, sources |-> sources,
     chunks_retrieved |-> Len(chunks), model_used |-> "deployment"]

RagIdle ==
    [pc |-> "idle", client |-> FALSE, chunks |-> <<>>, context |-> <<>>,
     reply |-> NoReply, response |-> <<>>, result |-> NoRet]

\* The chunk dicts a caller passes: with every key, without a score,
\* without a text
RagChunks ==
    {[chunk_id |-> "c1", text |-> <<"a">>, similarity_score |-> ScoreDen],
     [chunk_id |-> "c2", text |-> <<"b", "b">>, similarity_score |-> 0 - 1],
     [chunk_id |-> "c3", text |-> <<"a">>],
     [chunk_id |-> "c4", similarity_score |-> 0]}

RagInputs == UNION {[1..n -> RagChunks] : n \in 0..MaxRagChunks}

InitRag ==
    /\ rag \in {[RagIdle EXCEPT !.pc = "called", !.client = c, !.chunks = cs] :
                    c \in BOOLEAN, cs \in RagInputs}
    /\ llm_calls = 0

\* return r
RagReturn(r) == rag' = [rag EXCEPT !.pc = "done", !.result = Returned(r)]

\* An exception x inside the try block of lines 118-189
RagExcept(x) ==
    IF Handles(x)
    THEN RagReturn(ErrorResult(x, rag.chunks))
    ELSE rag' = [rag EXCEPT !.pc = "done", !.result = Raised(x)]

\* lines 110-116
RagCheckClient ==
    /\ rag.pc = "called"
    /\ IF ~rag.client THEN RagReturn(Unavailable)
       ELSE rag' = [rag EXCEPT !.pc = "check_chunks"]
    /\ UNCHANGED <<llm_calls, ctx, conf, cacheVars, singletonVars>>

\* lines 119-128
RagCheckChunks ==
    /\ rag.pc = "check_chunks"
    /\ IF NoChunks(rag.chunks) THEN RagReturn(NoContext)
       ELSE rag' = [rag EXCEPT !.pc = "log_top"]
    /\ UNCHANGED <<llm_calls, ctx, conf, cacheVars, singletonVars>>

\* lines 131-134: chunk['text'] of the first three chunks
RagLogTop ==
    /\ rag.pc = "log_top"
    /\ IF \E i \in 1..Len(Prefix(rag.chunks, SourceChunks)) : ~HasKey(rag.chunks[i], "text")
       THEN RagExcept("KeyError")
       ELSE rag' = [rag EXCEPT !.pc = "build_context"]
    /\ UNCHANGED <<llm_calls, ctx, conf, cacheVars, singletonVars>>

\* lines 137-140
RagBuildContext ==
    /\ rag.pc = "build_context"
    /\ LET c == BuildContext(rag.chunks, DefaultMaxLength) IN
         IF c.kind = "raised" THEN RagExcept(c.val)
         ELSE rag' = [rag EXCEPT !.pc = "complete", !.context = c.val]
    /\ UNCHANGED <<llm_calls, ctx, conf, cacheVars, singletonVars>>

\* lines 143-148: the completion is requested and answers with some reply
RagComplete ==
    /\ rag.pc = "complete"
    /\ llm_calls' = llm_calls + 1
    /\ \E reply \in Replies :
         LET r == GenerateCompletion(reply) IN
         IF r.kind = "raised"
         THEN IF Handles(r.val)
              THEN rag' = [rag EXCEPT !.pc = "done", !.reply = reply,
                                      !.result = Returned(ErrorResult(r.val, rag.chunks))]
              ELSE rag' = [rag EXCEPT !.pc = "done", !.reply = reply, !.result = r]
         ELSE rag' = [rag EXCEPT !.pc = "respond", !.reply = reply, !.response = r.val]
    /\ UNCHANGED <<ctx, conf, cacheVars, singletonVars>>

\* lines 150-180
RagRespond ==
    /\ rag.pc = "respond"
    /\ IF Truthy(rag.response)
       THEN LET confidence == EstimateConfidence(rag.chunks)
                sources == Sources(rag.chunks)
            IN IF confidence.kind = "raised" THEN RagExcept(confidence.val)
               ELSE IF sources.kind = "raised" THEN RagExcept(sources.val)
               ELSE RagReturn(Success(Strip(rag.response[1]), confidence.val,
                                      sources.val, rag.chunks))
       ELSE RagReturn(EmptyResponse(rag.chunks))
    /\ UNCHANGED <<llm_calls, ctx, conf, cacheVars, singletonVars>>

NextRag ==
    \/ RagCheckClient
    \/ RagCheckChunks
    \/ RagLogTop
    \/ RagBuildContext
    \/ RagComplete
    \/ RagRespond

\* ---- calls of _build_context and of _estimate_confidence on their own

CtxIdle == [pc |-> "idle", chunks |-> <<>>, max_length |-> 0, out |-> NoRet]
ConfIdle == [pc |-> "idle", chunks |-> <<>>, out |-> NoRet]

Texts == {Rep("a", n) : n \in 0..MaxTextLen}

CtxInputs == UNION {[1..n -> {[text |-> x] : x \in Texts}] : n \in 0..MaxCtxChunks}

InitCtx ==
    ctx \in {[CtxIdle EXCEPT !.pc = "called", !.chunks = cs, !.max_length = m] :
                cs \in CtxInputs, m \in 0..MaxMaxLength}

BuildContextCall ==
    /\ ctx.pc = "called"
    /\ ctx' = [ctx EXCEPT !.pc = "done", !.out = BuildContext(ctx.chunks, ctx.max_length)]
    /\ UNCHANGED <<rag, llm_calls, conf, cacheVars, singletonVars>>

NextCtx == BuildContextCall

\* Similarity scores from -1.0 to 1.0, and one above 1.0
Scores == (0 - ScoreDen)..(ScoreDen + 1)

\* Ranked lists of n chunks: scores in descending order
RECURSIVE Ranked(_)
Ranked(n) ==
    IF n = 0 THEN {<<>>}
    ELSE UNION {{Append(r, [similarity_score |-> x]) :
                    x \in {y \in Scores : n = 1 \/ y <= r[n - 1].similarity_score}} :
                r \in Ranked(n - 1)}

RankedLists == UNION {Ranked(n) : n \in 0..MaxRanked}

InitConf ==
    conf \in {[ConfIdle EXCEPT !.pc = "called", !.chunks = cs] : cs \in RankedLists}

EstimateConfidenceCall ==
    /\ conf.pc = "called"
    /\ conf' = [conf EXCEPT !.pc = "done", !.out = EstimateConfidence(conf.chunks)]
    /\ UNCHANGED <<rag, llm_calls, ctx, cacheVars, singletonVars>>

NextConf == EstimateConfidenceCall

InitServiceIdle == rag = RagIdle /\ llm_calls = 0 /\ ctx = CtxIdle /\ conf = ConfIdle

-----------------------------------------------------------------------------
Init == InitCache /\ InitCallers /\ InitSingleton /\ InitServiceIdle

Next ==
    \E t \in Threads :
        \/ Start(t)
        \/ \E c \in AllCalls(t) : Acquire(t, c)
        \/ IsCached(t)
        \/ Get(t)
        \/ SetBuild(t)
        \/ SetInstall(t)
        \/ GetAllDocumentIds(t)
        \/ GetAllMetadata(t)
        \/ Remove(t)
        \/ ClearMap(t)
        \/ ClearFlags(t)
        \/ StatsChunks(t)
        \/ StatsVectors(t)
        \/ StatsReturn(t)
        \/ MarkInitialized(t)
        \/ IsInitialized(t)

\* Threads calling the methods of one VectorCache
Spec == Init /\ [][Next]_vars

\* Threads calling get_vector_cache
SpecSingleton == Init /\ [][NextSingleton]_vars

\* One call of generate_rag_answer on each list of chunks
InitRagCall ==
    /\ InitCache /\ InitCallers /\ InitSingleton
    /\ InitRag /\ ctx = CtxIdle /\ conf = ConfIdle

SpecRag == InitRagCall /\ [][NextRag]_vars

\* One call of _build_context on each list of chunks and each max_length
InitContextCall ==
    /\ InitCache /\ InitCallers /\ InitSingleton
    /\ rag = RagIdle /\ llm_calls = 0 /\ InitCtx /\ conf = ConfIdle

SpecContext == InitContextCall /\ [][NextCtx]_vars

\* One call of _estimate_confidence on each ranked list
InitConfidenceCall ==
    /\ InitCache /\ InitCallers /\ InitSingleton
    /\ rag = RagIdle /\ llm_calls = 0 /\ ctx = CtxIdle /\ InitConf

SpecConfidence == InitConfidenceCall /\ [][NextConf]_vars

\* ---- Callers of the cache methods and of get_vector_cache side by side,
\* under fair scheduling

LiveOps == 2

\* A caller starts a call while fewer than LiveOps calls have been started
LStart(t) == calls + gcalls < LiveOps /\ Start(t)
LGStart(t) == calls + gcalls < LiveOps /\ GStart(t)

\* The calls of the fair specification: every method, on one document id,
\* set with one chunk and an array of any of the shapes
LiveCalls(t) ==
    {c \in AllCalls(t) : c.id \in {"", "d1"} /\ (c.name = "set" => Len(c.chunks) = 1)}

\* "with self._lock:" entered
Take(t) == \E c \in LiveCalls(t) : Acquire(t, c)

\* A step of a method body, by the thread that holds self._lock
Work(t) ==
    \/ IsCached(t) \/ Get(t) \/ SetBuild(t) \/ SetInstall(t)
    \/ GetAllDocumentIds(t) \/ GetAllMetadata(t) \/ Remove(t)
    \/ ClearMap(t) \/ ClearFlags(t)
    \/ StatsChunks(t) \/ StatsVectors(t) \/ StatsReturn(t)
    \/ MarkInitialized(t) \/ IsInitialized(t)

\* A step of get_vector_cache other than taking _cache_lock
GWork(t) ==
    \/ GFirstCheck(t) \/ GSecondCheck(t) \/ GConstruct(t)
    \/ GStore(t) \/ GUnlock(t) \/ GReturn(t)

NextLive ==
    \/ \E t \in Threads : LStart(t) \/ Take(t) \/ Work(t)
    \/ \E t \in GetThreads : LGStart(t) \/ GLock(t) \/ GWork(t)

\* Fair scheduling: a thread that stays able to take its next step (to take
\* a free lock, or to run on inside a call) takes it in the end
Fairness ==
    /\ \A t \in Threads : WF_vars(Take(t) \/ Work(t))
    /\ \A t \in GetThreads : WF_vars(GLock(t) \/ GWork(t))

SpecLive == Init /\ [][NextLive]_vars /\ Fairness

-----------------------------------------------------------------------------
\* Properties of VectorCache, under Spec

\* The step in which thread t leaves method n
Returns(t, n) == op[t].name = n /\ pc[t] \notin {"idle", "acquire", "done"} /\ pc'[t] = "done"

\* len(vectors) != len(chunks)
Mismatch(c) == c.embeddings.rows # Len(c.chunks)

\* C1: a set with len(vectors) != len(chunks) fails with ShapeMismatch and
\* leaves what is stored under the key as it was before the call.
C1_MismatchRejected ==
    [][\A t \in Threads :
          (Returns(t, "set") /\ Mismatch(op[t]))
              => /\ ret'[t].kind = "raised"
                 /\ ret'[t].val = "ShapeMismatch"
                 /\ DictGet(cache', op[t].id) = DictGet(cache, op[t].id)]_vars

\* C2: a get of k that follows a set of k, with no set, remove or clear of
\* k completed in between, returns an entry with the chunk list and the
\* metadata that were passed to that set.
C2_RoundTrip ==
    [][\A t \in Threads :
          (Returns(t, "get") /\ written[op[t].id] # <<>>)
              => /\ ret'[t].kind = "value"
                 /\ Len(ret'[t].val) = 1
                 /\ heap'[ret'[t].val[1]].chunks = written[op[t].id][1].chunks
                 /\ heap'[ret'[t].val[1]].metadata = written[op[t].id][1].metadata]_vars

\* A get has returned the entry of a set that replaced the entry another
\* caller had stored under the same id
C2_Witness ==
    \E t \in Threads, u \in Threads :
        /\ t # u
        /\ pc[t] = "done" /\ op[t].name = "get"
        /\ pc[u] = "done" /\ op[u].name = "set" /\ op[u].id = op[t].id
        /\ ret[u].kind = "value"
        /\ ret[t].val # <<>>
        /\ heap[ret[t].val[1]].metadata = Metadata(t)

EntryFields == {"embeddings", "chunks", "metadata", "faiss_index", "cached_at"}

\* C3: what get, get_stats, get_all_document_ids and get_all_metadata
\* return is computed from the mapping as it is at the instant of the
\* return: get returns the stored entry with all its fields, and the
\* counts and ids of get_stats are those of one and the same mapping.
C3_ReadsAreSnapshots ==
    [][\A t \in Threads :
          /\ Returns(t, "get")
                => /\ ret'[t] = Returned(DictGet(cache, op[t].id))
                   /\ \A i \in 1..Len(ret'[t].val) :
                         DOMAIN heap'[ret'[t].val[i]] = EntryFields
          /\ Returns(t, "get_stats")
                => /\ ret'[t].kind = "value"
                   /\ ret'[t].val.total_documents = Len(ret'[t].val.document_ids)
                   /\ ret'[t].val.document_ids = DictKeys(cache)
                   /\ ret'[t].val.total_chunks = SumChunks(cache)
                   /\ ret'[t].val.total_vectors = SumVectors(cache)
          /\ Returns(t, "get_all_document_ids")
                => ret'[t] = Returned(DictKeys(cache))
          /\ Returns(t, "get_all_metadata")
                => /\ ret'[t].kind = "value"
                   /\ Len(ret'[t].val) = Len(cache)
                   /\ \A i \in 1..Len(cache) :
                         /\ ret'[t].val[i].document_id = cache[i].id
                         /\ ret'[t].val[i].cached_at = IsoFormat(heap[cache[i].entry].cached_at)]_vars

\* get_stats has returned the counts of one document while a set of another
\* caller was waiting for the lock, and that set has since been installed
C3_Witness ==
    \E t \in Threads, u \in Threads :
        /\ t # u
        /\ pc[t] = "done" /\ op[t].name = "get_stats"
        /\ ret[t].val.total_documents = 1 /\ ret[t].val.total_chunks = 1
        /\ pc[u] = "done" /\ op[u].name = "set"
        /\ Len(cache) = 2

\* Every caller has made one call, a set with a 2-D array and as many
\* chunks as rows, on an id no other caller uses, and all have returned
OneValidSetEach ==
    /\ calls = Cardinality(Threads)
    /\ \A t \in Threads :
          /\ pc[t] = "done" /\ op[t].name = "set"
          /\ op[t].embeddings.ndim = 2 /\ ~Mismatch(op[t])
    /\ \A t \in Threads, u \in Threads : t # u => op[t].id # op[u].id

\* C4: when concurrent callers have each completed one valid set on ids of
\* their own, every call has succeeded and every id holds its caller's entry.
C4_NoLostWrites ==
    OneValidSetEach =>
        \A t \in Threads :
            /\ ret[t] = Returned(<<>>)
            /\ DictHas(cache, op[t].id)
            /\ LET e == heap[DictGet(cache, op[t].id)[1]] IN
                 /\ e.embeddings = op[t].embeddings
                 /\ e.chunks = op[t].chunks
                 /\ e.metadata = Metadata(t)

C4_Witness == OneValidSetEach /\ \E t \in Threads : Len(op[t].chunks) = 1

Cleared ==
    /\ \A k \in DocIds : ~DictHas(cache, k)
    /\ cache = <<>>
    /\ initialized = FALSE
    /\ last_refresh = <<>>

\* C6: when clear returns nothing is cached, the flag is false and
\* last_refresh is empty, and this stays so until a set installs an entry
\* or mark_initialized runs.
C6_ClearResets ==
    [][/\ (\E t \in Threads : Returns(t, "clear")) => Cleared'
       /\ (Cleared /\ ~\E t \in Threads : Returns(t, "set") \/ Returns(t, "mark_initialized"))
             => Cleared']_vars

\* clear has returned after a set of the other caller and one more set or
\* mark_initialized
C6_Witness ==
    \E t \in Threads, u \in Threads :
        /\ t # u
        /\ pc[t] = "done" /\ op[t].name = "clear"
        /\ pc[u] = "done" /\ op[u].name = "set" /\ ret[u].kind = "value"
        /\ clock = 2
        /\ Cleared

-----------------------------------------------------------------------------
\* Properties of get_vector_cache, under SpecSingleton

\* C5: at most one VectorCache is ever constructed, and every call of
\* get_vector_cache returns that one object, never None.
C5_Singleton ==
    /\ constructed <= 1
    /\ \A t \in GetThreads : gpc[t] = "done" => got[t] = <<1>>

\* One caller has returned the object; another, which found the global
\* empty at its unlocked test, now holds the lock and finds it bound
C5_Witness ==
    \E t \in GetThreads, u \in GetThreads :
        /\ gpc[t] = "done" /\ got[t] = <<1>>
        /\ gpc[u] = "second_check" /\ cache_lock = u
        /\ instance = <<1>>

-----------------------------------------------------------------------------
\* Properties of generate_rag_answer, under SpecRag

\* a = b for fractions
RatEq(a, b) == a.num * b.den = b.num * a.den

ResultKeys == {"answer", "confidence", "sources", "chunks_retrieved"}

\* C7: in a call with an empty list of chunks no completion is requested,
\* and the call returns confidence 0.0, chunks_retrieved 0 and no sources.
C7_NoContextSkipsModel ==
    (rag.pc # "idle" /\ Len(rag.chunks) = 0)
        => /\ llm_calls = 0
           /\ rag.pc = "done"
                => /\ rag.result.kind = "value"
                   /\ RatEq(rag.result.val.confidence, Zero)
                   /\ rag.result.val.chunks_retrieved = 0
                   /\ rag.result.val.sources = <<>>

\* A call with a client and no chunk has returned the no-context result
C7_Witness ==
    /\ rag.pc = "done" /\ rag.client /\ Len(rag.chunks) = 0
    /\ rag.result.val.answer = <<"no_context">>

\* The completion raised, or returned no choice, or a content of None or ""
CompletionFailed ==
    \/ rag.reply.kind \in {"raise", "no_choice"}
    \/ rag.reply.kind = "choice" /\ ~Truthy(rag.reply.content)

\* C8: generate_rag_answer returns a dict with answer, confidence, sources
\* and chunks_retrieved and never raises; when the completion raised or
\* returned no content, confidence is 0.0 and sources is empty.
C8_NeverRaises ==
    rag.pc = "done"
        => /\ rag.result.kind = "value"
           /\ ResultKeys \subseteq DOMAIN rag.result.val
           /\ CompletionFailed
                => /\ RatEq(rag.result.val.confidence, Zero)
                   /\ rag.result.val.sources = <<>>

\* The completion raised, and the call has returned the error result
C8_Witness ==
    /\ rag.pc = "done" /\ rag.reply.kind = "raise"
    /\ rag.result.kind = "value"
    /\ rag.result.val.answer = <<"error", "APIError">>
    /\ Len(rag.chunks) = 2

-----------------------------------------------------------------------------
\* Properties of _build_context, under SpecContext

\* The first m chunks, each with its label and whole, joined by newlines
WholeChunks(chunks, m) == Join([i \in 1..m |-> ChunkText(i, chunks[i])], <<"\n">>)

\* Two chunks of 6000 characters and max_length 10000
TwoLongChunks == <<[text |-> Rep("a", 6000)], [text |-> Rep("b", 6000)]>>
TwoLongChunksContext == BuildContext(TwoLongChunks, DefaultMaxLength)

\* C9: the context is at most max_length characters long and is made of
\* whole chunks; of two chunks of 6000 characters, with max_length 10000,
\* only the first appears.
C9_ContextWithinMaxLength ==
    ctx.pc = "done"
        => /\ ctx.out.kind = "value"
           /\ Len(ctx.out.val) <= ctx.max_length
           /\ \E m \in 0..Len(ctx.chunks) : ctx.out.val = WholeChunks(ctx.chunks, m)
           /\ TwoLongChunksContext = Returned(WholeChunks(TwoLongChunks, 1))

-----------------------------------------------------------------------------
\* Properties of _estimate_confidence, under SpecConfidence

\* Every score lies between -1.0 and 1.0
ScoresInRange(chunks) ==
    \A i \in 1..Len(chunks) :
        0 - ScoreDen <= chunks[i].similarity_score /\ chunks[i].similarity_score <= ScoreDen

\* C10: for scores between -1.0 and 1.0 the confidence lies between 0.0
\* and 1.0, and it is 0.0 for the empty list.
C10_ConfidenceInUnitInterval ==
    (conf.pc = "done" /\ ScoresInRange(conf.chunks))
        => /\ conf.out.kind = "value"
           /\ RatLeq(Zero, conf.out.val)
           /\ RatLeq(conf.out.val, One)
           /\ Len(conf.chunks) = 0 => RatEq(conf.out.val, Zero)

-----------------------------------------------------------------------------
\* Further properties of VectorCache, under Spec

\* Some caller completes a call of method n in this step
Completes(n) == \E t \in Threads : Returns(t, n)

\* C13: initialized and last_refresh change only when mark_initialized
\* completes (which sets them) or clear completes (which resets them); every
\* step of set, remove, get, is_cached, get_stats, get_all_document_ids and
\* get_all_metadata leaves both as they are, and is_initialized returns the
\* flag: true exactly when a mark_initialized came with no clear after it.
C13_FlagsFrame ==
    [][/\ Completes("mark_initialized") => initialized' /\ last_refresh' = <<clock'>>
       /\ Completes("clear") => ~initialized' /\ last_refresh' = <<>>
       /\ ~(Completes("mark_initialized") \/ Completes("clear"))
            => UNCHANGED <<initialized, last_refresh>>
       /\ \A t \in Threads :
            Returns(t, "is_initialized")
                => ret'[t].kind = "value" /\ ret'[t].val = initialized]_vars

\* is_initialized has returned true after a set that came after the mark
C13_Witness ==
    \E t \in Threads :
        /\ pc[t] = "done" /\ op[t].name = "is_initialized"
        /\ ret[t].kind = "value" /\ ret[t].val = TRUE
        /\ last_refresh # <<>>
        /\ \E i \in 1..Len(cache) : heap[cache[i].entry].cached_at > last_refresh[1]


\* C14: remove(k) returns True exactly when an entry is stored under k when
\* it runs, and False otherwise, without raising; k is not cached right
\* after it, so that a remove or is_cached of k that follows with no set of
\* k completed in between returns False.
C14_Remove ==
    [][\A t \in Threads :
          /\ Returns(t, "remove")
                => /\ ret'[t].kind = "value"
                   /\ ret'[t].val = DictHas(cache, op[t].id)
                   /\ ~DictHas(cache', op[t].id)
                   /\ written[op[t].id] = <<>> => ret'[t].val = FALSE
          /\ (Returns(t, "is_cached") /\ written[op[t].id] = <<>>)
                => ret'[t].kind = "value" /\ ret'[t].val = FALSE]_vars

\* A remove of k returned True and the remove of k after it returned False
C14_Witness ==
    \E t, u \in Threads :
        /\ pc[t] = "done" /\ op[t].name = "remove" /\ ret[t] = Returned(TRUE)
        /\ pc[u] = "done" /\ op[u].name = "remove" /\ ret[u] = Returned(FALSE)
        /\ op[t].id = op[u].id
        /\ clock = 1


\* C15: every stored entry has as many vectors as chunks, and get_stats
\* reports total_chunks equal to total_vectors.
C15_EntryInvariant ==
    /\ \A i \in 1..Len(cache) :
          heap[cache[i].entry].embeddings.rows = Len(heap[cache[i].entry].chunks)
    /\ \A t \in Threads :
          (pc[t] = "done" /\ op[t].name = "get_stats")
              => ret[t].val.total_chunks = ret[t].val.total_vectors


\* C16: a set that fails leaves the mapping as it was when the call took
\* the lock (no step changes the mapping from then until the failure, and
\* the failing step stores nothing), and releases the lock, which is then
\* free for every caller.
C16_FailedSet ==
    [][\A t \in Threads :
          /\ (pc[t] = "acquire" /\ pc'[t] = "set_build") => cache' = cache
          /\ pc[t] = "set_build" => cache' = cache
          /\ (Returns(t, "set") /\ ret'[t].kind = "raised")
                => /\ cache' = cache
                   /\ heap' = heap
                   /\ written' = written
                   /\ lock'.count = 0
                   /\ \A u \in Threads : pc'[u] \in {"idle", "acquire", "done"}]_vars

\* After a set of k failed, the entry stored under k before it is still
\* there and another caller is inside the lock
C16_Witness ==
    \E t, u \in Threads :
        /\ pc[t] = "done" /\ op[t].name = "set" /\ ret[t].kind = "raised"
        /\ written[op[t].id] # <<>>
        /\ DictHas(cache, op[t].id)
        /\ heap[DictGet(cache, op[t].id)[1]].embeddings.ndim = 2
        /\ lock.owner = u /\ u # t /\ pc[u] = "get" /\ op[u].id = op[t].id

\* C17: the entry a reader has obtained from get(k) keeps its fields in
\* every later step (no step changes a dict that exists); a set of k stores
\* a new dict under k, a remove of k or a clear leaves nothing under k, and
\* a later get(k) returns what is stored then.
C17_ReplacementInstallsNew ==
    [][/\ Len(heap') >= Len(heap)
       /\ \A r \in 1..Len(heap) : heap'[r] = heap[r]
       /\ \A t \in Threads :
            /\ (pc[t] = "done" /\ op[t].name = "get" /\ ret[t].val # <<>>)
                  => heap'[ret[t].val[1]] = heap[ret[t].val[1]]
            /\ (Returns(t, "set") /\ ret'[t].kind = "value")
                  => /\ Len(heap') = Len(heap) + 1
                     /\ DictGet(cache', op[t].id) = <<Len(heap')>>
            /\ Returns(t, "remove") => DictGet(cache', op[t].id) = <<>>
            /\ Returns(t, "clear") => cache' = <<>>
            /\ Returns(t, "get") => ret'[t].val = DictGet(cache', op[t].id)]_vars

\* A reader holds the entry it got from get(k), and a set of k by another
\* caller has since stored another entry under k
C17_Witness ==
    \E t, u \in Threads :
        /\ pc[t] = "done" /\ op[t].name = "get" /\ ret[t].val # <<>>
        /\ pc[u] = "done" /\ op[u].name = "set" /\ op[u].id = op[t].id
        /\ DictGet(cache, op[t].id) # <<>>
        /\ DictGet(cache, op[t].id) # ret[t].val
        /\ heap[ret[t].val[1]].cached_at < heap[DictGet(cache, op[t].id)[1]].cached_at


\* C20: no step of a set or a remove of k changes what is stored under
\* another key j: j is cached after the step exactly if it was before, get(j)
\* would return the same entry, and that entry has the same fields.
C20_KeyIndependence ==
    [][\A t \in Threads :
          (pc'[t] # pc[t] /\ op'[t].name \in {"set", "remove"})
              => \A j \in DocIds \ {op'[t].id} :
                    /\ DictHas(cache', j) = DictHas(cache, j)
                    /\ DictGet(cache', j) = DictGet(cache, j)
                    /\ \A i \in 1..Len(DictGet(cache, j)) :
                          heap'[DictGet(cache, j)[i]] = heap[DictGet(cache, j)[i]]]_vars

\* A set and then a remove of one key have completed while the entry stored
\* before them under the other key is still the one stored there
C20_Witness ==
    \E t, u \in Threads :
        /\ pc[t] = "done" /\ op[t].name = "remove" /\ ret[t] = Returned(TRUE)
        /\ pc[u] = "done" /\ op[u].name = "set" /\ op[u].id # op[t].id
        /\ Len(heap) = 2
        /\ DictGet(cache, op[u].id) = <<1>>
        /\ ~DictHas(cache, op[t].id)

\* The methods that only read
ReadOps == {"is_cached", "get", "get_all_document_ids", "get_all_metadata",
            "get_stats", "is_initialized"}

\* The keys get_all_metadata adds to each record it returns
AddedKeys == {"document_id", "cached_at"}

\* C21: every step of is_cached, get, get_all_document_ids, get_all_metadata,
\* get_stats and is_initialized leaves the mapping, every stored entry and
\* initialized/last_refresh unchanged; get on an absent key returns the empty
\* result, raises nothing and leaves the key absent; the records that
\* get_all_metadata returns are the stored metadata plus document_id and
\* cached_at, and the stored metadata are as they were before the call.
C21_ReadsArePure ==
    [][\A t \in Threads :
          /\ (pc'[t] # pc[t] /\ op'[t].name \in ReadOps)
                => /\ cache' = cache
                   /\ heap' = heap
                   /\ initialized' = initialized
                   /\ last_refresh' = last_refresh
          /\ (Returns(t, "get") /\ ~DictHas(cache, op[t].id))
                => /\ ret'[t] = Returned(<<>>)
                   /\ ~DictHas(cache', op[t].id)
          /\ Returns(t, "get_all_metadata")
                => /\ ret'[t].kind = "value"
                   /\ \A i \in 1..Len(cache) :
                         /\ DOMAIN ret'[t].val[i]
                               = DOMAIN heap[cache[i].entry].metadata \cup AddedKeys
                         /\ \A k \in DOMAIN heap[cache[i].entry].metadata \ AddedKeys :
                               ret'[t].val[i][k] = heap[cache[i].entry].metadata[k]
                         /\ heap'[cache'[i].entry].metadata
                               = written[cache[i].id][1].metadata]_vars

\* get_all_metadata has returned a record with document_id for an entry whose
\* stored metadata have no such key, and a get of an absent key has returned
\* the empty result
C21_Witness ==
    \E t, u \in Threads :
        /\ pc[t] = "done" /\ op[t].name = "get_all_metadata"
        /\ ret[t].kind = "value" /\ Len(ret[t].val) = 1 /\ Len(cache) = 1
        /\ ret[t].val[1].document_id = cache[1].id
        /\ DOMAIN heap[cache[1].entry].metadata \cap AddedKeys = {}
        /\ pc[u] = "done" /\ op[u].name = "get"
        /\ ret[u] = Returned(<<>>) /\ ~DictHas(cache, op[u].id)

-----------------------------------------------------------------------------
\* Termination of the cache methods and of get_vector_cache, under SpecLive

\* Thread t is inside a call of a cache method, of get_vector_cache
Busy(t) == pc[t] \notin {"idle", "done"}
GBusy(t) == gpc[t] \notin {"idle", "done"}

\* While a call is under way some thread can take a step
NoDeadlock ==
    ((\E t \in Threads : Busy(t)) \/ (\E t \in GetThreads : GBusy(t)))
        => ENABLED ((\E t \in Threads : Take(t) \/ Work(t))
                        \/ (\E t \in GetThreads : GLock(t) \/ GWork(t)))

\* C18: under fair scheduling every call that has started completes and no
\* longer holds the lock it took, and no state with a call under way is a
\* deadlock.
C18_NoIndefiniteBlocking ==
    /\ \A t \in Threads : Busy(t) ~> (pc[t] = "done" /\ lock.owner # t)
    /\ \A t \in GetThreads : GBusy(t) ~> (gpc[t] = "done" /\ cache_lock # t)
    /\ []NoDeadlock

\* A caller waits for self._lock while the other caller is inside a method
C18_Witness ==
    \E t, u \in Threads :
        /\ pc[t] = "acquire" /\ ~CanAcquire(t)
        /\ lock.owner = u /\ pc[u] = "set_install"

-----------------------------------------------------------------------------
\* Further properties of _build_context, under SpecContext

\* The cumulative length of the first m labelled chunks, as the loop counts
\* it: the sum of their lengths
RECURSIVE CumulativeLength(_, _)
CumulativeLength(chunks, m) ==
    IF m = 0 THEN 0
    ELSE CumulativeLength(chunks, m - 1) + Len(ChunkText(m, chunks[m]))

\* C19: the context is made of exactly the first m chunks, in order and
\* labelled 1..m, where chunk m+1 is the first chunk that would bring the
\* cumulative length of the labelled chunks above max_length: no chunk after
\* it is included, and no chunk gives the empty string.
C19_ContextIsPrefix ==
    ctx.pc = "done"
        => /\ ctx.out.kind = "value"
           /\ \E m \in 0..Len(ctx.chunks) :
                 /\ ctx.out.val = WholeChunks(ctx.chunks, m)
                 /\ CumulativeLength(ctx.chunks, m) <= ctx.max_length
                 /\ m < Len(ctx.chunks)
                       => CumulativeLength(ctx.chunks, m + 1) > ctx.max_length
           /\ Len(ctx.chunks) = 0 => ctx.out.val = <<>>

\* Of three chunks the first is the context: the second does not fit, and
\* the third, which would fit after the first, is left out
C19_Witness ==
    /\ ctx.pc = "done" /\ Len(ctx.chunks) = 3
    /\ ctx.out.val = WholeChunks(ctx.chunks, 1)
    /\ Len(ChunkText(1, ctx.chunks[1])) + Len(ChunkText(3, ctx.chunks[3])) <= ctx.max_length

-----------------------------------------------------------------------------
\* Further properties of _estimate_confidence, under SpecConfidence

\* The list with a chunk of score x put before the chunks
Prepended(x, chunks) == <<[similarity_score |-> x]>> \o chunks

\* C11: for a ranked list and a chunk whose score is at least the score of
\* the list's first chunk, the confidence of the list with that chunk
\* prepended is not lower than the confidence of the list.
C11_PrependMonotone ==
    (conf.pc = "done" /\ Len(conf.chunks) > 0)
        => \A x \in Scores :
              x >= conf.chunks[1].similarity_score
                  => RatLeq(conf.out.val, EstimateConfidence(Prepended(x, conf.chunks)).val)


\* The weights 1.0, 0.8, 0.6, 0.4, 0.2
W == [i \in 1..5 |-> Round(12 - 2 * i, 10)]

\* w[1] * score[1] + ... + w[k] * score[k] and w[1] + ... + w[k], added from
\* left to right
WeightedScores(chunks, k) ==
    LET t(i) == FMul(Round(chunks[i].similarity_score, ScoreDen), W[i])
    IN CASE k = 1 -> t(1)
         [] k = 2 -> FAdd(t(1), t(2))
         [] k = 3 -> FAdd(FAdd(t(1), t(2)), t(3))
         [] k = 4 -> FAdd(FAdd(FAdd(t(1), t(2)), t(3)), t(4))
         [] k = 5 -> FAdd(FAdd(FAdd(FAdd(t(1), t(2)), t(3)), t(4)), t(5))

WeightsUsed(k) ==
    CASE k = 1 -> W[1]
      [] k = 2 -> FAdd(W[1], W[2])
      [] k = 3 -> FAdd(FAdd(W[1], W[2]), W[3])
      [] k = 4 -> FAdd(FAdd(FAdd(W[1], W[2]), W[3]), W[4])
      [] k = 5 -> FAdd(FAdd(FAdd(FAdd(W[1], W[2]), W[3]), W[4]), W[5])

\* C12: for a non-empty ranked list of n chunks the confidence is
\* min(1.0, (sum over i < min(n, 5) of w[i] * score[i]) / (sum over
\* i < min(n, 5) of w[i])): no chunk from the sixth on counts, and the
\* divisor is the sum of the weights used.
C12_WeightedAverage ==
    (conf.pc = "done" /\ Len(conf.chunks) > 0)
        => LET k == Min(Len(conf.chunks), 5)
               q == FDiv(WeightedScores(conf.chunks, k), WeightsUsed(k))
           IN /\ conf.out.kind = "value"
              /\ RatEq(conf.out.val, IF RatLeq(One, q) THEN One ELSE q)

\* The confidence of six chunks, the sixth scored below the fifth, lies
\* strictly between 0 and 1
C12_Witness ==
    /\ conf.pc = "done" /\ Len(conf.chunks) = 6
    /\ conf.chunks[6].similarity_score < conf.chunks[5].similarity_score
    /\ conf.chunks[2].similarity_score < conf.chunks[1].similarity_score
    /\ ~RatLeq(conf.out.val, Zero) /\ ~RatLeq(One, conf.out.val)

=============================================================================
